---- MODULE Spec2Model ----
(***************************************************************************)
(* Model of the Chinook chat agent: the name gate of src/agent.py, the     *)
(* POST /chat handler and the thread registry of src/fastapi_backend.py.   *)
(*                                                                         *)
(* Python values are encoded as follows.                                   *)
(*   str             a tuple of one-character strings, <<"h","i">>; a text *)
(*                   whose characters no code looks at is a tuple of its   *)
(*                   fragments, <<"Error: ", "syntax error">>              *)
(*   Optional[x]     None is <<>>, a present value x is <<x>>              *)
(*   message content <<"str", s>>, <<"list", parts>> or <<"none">>         *)
(***************************************************************************)
EXTENDS Integers, Sequences, FiniteSets, TLC

\* ------------------------------------------------------------------ bounds

\* Cap on the number of messages the checkpointer keeps for one thread.
MaxMsgs == 5
\* Cap on the clock (datetime.now values are 1..MaxTime).
MaxTime == 2
\* Cap on the number of state-changing requests (POST /chat, POST /threads,
\* DELETE /threads/{id}) the server receives in one run.
MaxRequests == 3
\* Cap on the tool calls of one agent.stream call when the call is taken as
\* one step.
MaxLoopCalls == 1

\* ------------------------------------------------------------------ values

None == <<>>
Some(x) == <<x>>

ThreadIds == {"t1", "t2"}
\* Request slots: the tasks of the event loop that may overlap.
Reqs == {"r1", "r2"}

\* Texts a client submits as ChatRequest.message.
ChatMessages == { <<"h","i">> }

\* Titles a client may give to POST /threads (None, empty, or a text).
CreateTitles == { None, Some(<<"T">>) }

\* (first, last) pairs the model may pass to update_user_name.
NamePairs == { << <<"f","r","a","n","k">>, <<"h","a","r","r","i","s">> >>,
               << <<"j","o","e">>, <<"d","o","e">> >> }

\* Rows (FirstName, LastName) of the Customer table.
CustomerTable == << << <<"F","r","a","n","k">>, <<"H","a","r","r","i","s">> >> >>

AllTools == {"execute_sql", "update_user_name"}

NEW_CONVERSATION ==
    <<"N","e","w"," ","C","o","n","v","e","r","s","a","t","i","o","n">>

NO_RESPONSE ==
    <<"N","o"," ","r","e","s","p","o","n","s","e"," ",
      "g","e","n","e","r","a","t","e","d">>

\* ------------------------------------------------------------------ str helpers

LowerLetters == <<"a","b","c","d","e","f","g","h","i","j","k","l","m",
                  "n","o","p","q","r","s","t","u","v","w","x","y","z">>
UpperLetters == <<"A","B","C","D","E","F","G","H","I","J","K","L","M",
                  "N","O","P","Q","R","S","T","U","V","W","X","Y","Z">>

IsLower(c) == \E i \in 1..26 : LowerLetters[i] = c
IsUpper(c) == \E i \in 1..26 : UpperLetters[i] = c
IsCased(c) == IsLower(c) \/ IsUpper(c)

\* str.upper() of one character.
UpperChar(c) ==
    IF IsLower(c) THEN UpperLetters[CHOOSE i \in 1..26 : LowerLetters[i] = c]
    ELSE c

\* str.lower() of one character.
LowerChar(c) ==
    IF IsUpper(c) THEN LowerLetters[CHOOSE i \in 1..26 : UpperLetters[i] = c]
    ELSE c

\* str.upper() of one character, as a str: an ASCII letter maps to its
\* capital, and U+00DF to the two characters "SS".
UpperStr(c) == IF c = "ß" THEN <<"S", "S">> ELSE <<UpperChar(c)>>

RECURSIVE Upper(_)
\* str.upper()
Upper(s) == IF s = <<>> THEN <<>> ELSE UpperStr(Head(s)) \o Upper(Tail(s))

\* str.title() on ASCII text: a cased character is upper-cased when it follows an uncased
\* character (or starts the string) and lower-cased otherwise.
Title(s) ==
    [i \in 1..Len(s) |->
        IF i = 1 \/ ~IsCased(s[i-1]) THEN UpperChar(s[i]) ELSE LowerChar(s[i])]

IsSpace(c) == c = " "

RECURSIVE LStrip(_)
LStrip(s) ==
    IF s = <<>> THEN <<>>
    ELSE IF IsSpace(Head(s)) THEN LStrip(Tail(s)) ELSE s

RECURSIVE RStrip(_)
RStrip(s) ==
    IF s = <<>> THEN <<>>
    ELSE IF IsSpace(s[Len(s)]) THEN RStrip(SubSeq(s, 1, Len(s) - 1)) ELSE s

\* str.strip()
Strip(s) == RStrip(LStrip(s))

\* s[:n]
Prefix(s, n) == SubSeq(s, 1, IF n < Len(s) THEN n ELSE Len(s))

\* s[n:] for n >= 0
Suffix(s, n) == SubSeq(s, n + 1, Len(s))

\* ------------------------------------------------------------------ titles

TitleMax == 50
TitleCut == 47

generate_thread_title(first_message) ==
    LET stripped == Strip(first_message)
        limited  == IF Len(stripped) > TitleMax
                    THEN Prefix(stripped, TitleCut) \o <<".",".",".">>
                    ELSE stripped
        title    == IF limited # <<>>
                    THEN IF Len(limited) > 1
                         THEN UpperStr(limited[1]) \o Suffix(limited, 1)
                         ELSE Upper(limited)
                    ELSE limited
    IN  IF title # <<>> THEN title ELSE NEW_CONVERSATION

\* ------------------------------------------------------------------ registry

\* Python truthiness of an Optional[str]: None and "" are falsy.
TruthyStr(opt) == opt # None /\ opt[1] # <<>>

\* Python truthiness of an Optional[list]: None and [] are falsy.
TruthyList(opt) == opt # None /\ opt[1] # <<>>

\* update_thread_registry refreshing last_activity of every entry.
update_thread_registry_all(reg, thread_id, title, is_new, messages, now) ==
    [t \in DOMAIN reg \cup {thread_id} |->
        IF t = thread_id
        THEN IF thread_id \notin DOMAIN reg \/ is_new
             THEN [created_at    |-> now,
                   last_activity |-> now,
                   title         |-> IF TruthyStr(title) THEN title[1]
                                     ELSE NEW_CONVERSATION,
                   messages      |-> IF TruthyList(messages) THEN messages[1]
                                     ELSE <<>>]
             ELSE [reg[t] EXCEPT
                     !.last_activity = now,
                     !.title    = IF TruthyStr(title) THEN title[1] ELSE @,
                     !.messages = IF messages # None THEN messages[1] ELSE @]
        ELSE [reg[t] EXCEPT !.last_activity = now]]

\* update_thread_registry stamping created_at on every update.
update_thread_registry_restamps(reg, thread_id, title, is_new, messages, now) ==
    [t \in DOMAIN reg \cup {thread_id} |->
        IF t = thread_id
        THEN IF thread_id \notin DOMAIN reg \/ is_new
             THEN [created_at    |-> now,
                   last_activity |-> now,
                   title         |-> IF TruthyStr(title) THEN title[1]
                                     ELSE NEW_CONVERSATION,
                   messages      |-> IF TruthyList(messages) THEN messages[1]
                                     ELSE <<>>]
             ELSE [reg[t] EXCEPT
                     !.created_at = now,
                     !.last_activity = now,
                     !.title    = IF TruthyStr(title) THEN title[1] ELSE @,
                     !.messages = IF messages # None THEN messages[1] ELSE @]
        ELSE reg[t]]

\* update_thread_registry merging into an entry that exists even when is_new.
update_thread_registry_merges(reg, thread_id, title, is_new, messages, now) ==
    IF thread_id \notin DOMAIN reg
    THEN [t \in DOMAIN reg \cup {thread_id} |->
            IF t = thread_id
            THEN [created_at    |-> now,
                  last_activity |-> now,
                  title         |-> IF TruthyStr(title) THEN title[1]
                                    ELSE NEW_CONVERSATION,
                  messages      |-> IF TruthyList(messages) THEN messages[1]
                                    ELSE <<>>]
            ELSE reg[t]]
    ELSE [reg EXCEPT
            ![thread_id].last_activity = now,
            ![thread_id].title    = IF TruthyStr(title) THEN title[1] ELSE @,
            ![thread_id].messages = IF messages # None THEN messages[1] ELSE @]

update_thread_registry(reg, thread_id, title, is_new, messages, now) ==
    IF thread_id \notin DOMAIN reg \/ is_new
    THEN [t \in DOMAIN reg \cup {thread_id} |->
            IF t = thread_id
            THEN [created_at    |-> now,
                  last_activity |-> now,
                  title         |-> IF TruthyStr(title) THEN title[1]
                                    ELSE NEW_CONVERSATION,
                  messages      |-> IF TruthyList(messages) THEN messages[1]
                                    ELSE <<>>]
            ELSE reg[t]]
    ELSE [reg EXCEPT
            ![thread_id].last_activity = now,
            ![thread_id].title    = IF TruthyStr(title) THEN title[1] ELSE @,
            ![thread_id].messages = IF messages # None THEN messages[1] ELSE @]

get_thread_messages_from_registry(reg, thread_id) ==
    IF thread_id \in DOMAIN reg THEN reg[thread_id].messages ELSE <<>>

\* A delete that empties the registry.
delete_thread_clears(reg, thread_id) ==
    IF thread_id \in DOMAIN reg THEN <<>> ELSE reg

\* del thread_registry[thread_id], guarded by the membership test.
delete_thread(reg, thread_id) ==
    IF thread_id \in DOMAIN reg
    THEN [t \in DOMAIN reg \ {thread_id} |-> reg[t]]
    ELSE reg

\* ------------------------------------------------------------------ messages

Str(s) == <<"str", s>>

\* Invocation ids are positive integers; 0 stands for a missing id.
HumanMessage(text) ==
    [type |-> "human", content |-> Str(text), tool_calls |-> <<>>,
     tool_call_id |-> 0]

AIMessage(content, tool_calls) ==
    [type |-> "ai", content |-> content, tool_calls |-> tool_calls,
     tool_call_id |-> 0]

ToolMessage(text, tool_call_id) ==
    [type |-> "tool", content |-> Str(text), tool_calls |-> <<>>,
     tool_call_id |-> tool_call_id]

ToolCall(name, args, id) == [name |-> name, args |-> args, id |-> id]

\* ------------------------------------------------------------------ agent

\* The rows (FirstName, LastName) of the Customer table of Chinook.db.
VARIABLE db

\* customer_exists comparing the names as given, without str.title().
customer_exists_raw(first_name, last_name) ==
    \E i \in 1..Len(db) : db[i] = <<first_name, last_name>>

\* The statement customer_exists builds puts first.title() and last.title()
\* between single quotes: a quote inside a name ends the literal early, and
\* db.run fails on what follows it.
customer_exists_raises(first_name, last_name) ==
    \E i \in 1..Len(first_name \o last_name) :
        (Title(first_name) \o Title(last_name))[i] = "'"

\* SELECT EXISTS (... WHERE FirstName = '<first.title()>' AND LastName =
\* '<last.title()>'): true when at least one row matches.  The value
\* customer_exists returns when db.run does not fail.
customer_exists(first_name, last_name) ==
    \E i \in 1..Len(db) : db[i] = <<Title(first_name), Title(last_name)>>

UPDATED_PREFIX == <<"Updated user name to ">>
REJECTED_INFIX ==
    <<" is not a valid name in the database. Ask the user for a name that",
      " actually exists in the database. Dont call the user ">>

\* update_user_name with a rejection branch that also closes the gate.
update_user_name_resets(new_first_name, new_last_name, tool_call_id) ==
    IF customer_exists(new_first_name, new_last_name)
    THEN [user_first_name |-> new_first_name,
          user_last_name  |-> new_last_name,
          has_valid_name  |-> TRUE,
          messages |-> << ToolMessage(
              UPDATED_PREFIX \o new_first_name \o <<" ">> \o new_last_name
                  \o <<".">>,
              tool_call_id) >>]
    ELSE [has_valid_name |-> FALSE,
          messages |-> << ToolMessage(
              Title(new_first_name) \o <<" ">> \o Title(new_last_name)
                  \o REJECTED_INFIX \o new_first_name,
              tool_call_id) >>]

\* update_user_name with a rejection branch that stores the rejected name.
update_user_name_stores(new_first_name, new_last_name, tool_call_id) ==
    IF customer_exists(new_first_name, new_last_name)
    THEN [user_first_name |-> new_first_name,
          user_last_name  |-> new_last_name,
          has_valid_name  |-> TRUE,
          messages |-> << ToolMessage(
              UPDATED_PREFIX \o new_first_name \o <<" ">> \o new_last_name
                  \o <<".">>,
              tool_call_id) >>]
    ELSE [user_first_name |-> new_first_name,
          user_last_name  |-> new_last_name,
          messages |-> << ToolMessage(
              Title(new_first_name) \o <<" ">> \o Title(new_last_name)
                  \o REJECTED_INFIX \o new_first_name,
              tool_call_id) >>]

\* The Command.update a call of update_user_name returns.
update_user_name(new_first_name, new_last_name, tool_call_id) ==
    IF customer_exists(new_first_name, new_last_name)
    THEN [user_first_name |-> new_first_name,
          user_last_name  |-> new_last_name,
          has_valid_name  |-> TRUE,
          messages |-> << ToolMessage(
              UPDATED_PREFIX \o new_first_name \o <<" ">> \o new_last_name
                  \o <<".">>,
              tool_call_id) >>]
    ELSE [messages |-> << ToolMessage(
              Title(new_first_name) \o <<" ">> \o Title(new_last_name)
                  \o REJECTED_INFIX \o new_first_name,
              tool_call_id) >>]

\* The graph state of a thread after a Command.update: messages are appended,
\* every other key the update names is overwritten.
ApplyCommand(state, update) ==
    [k \in DOMAIN state |->
        IF k \in DOMAIN update
        THEN IF k = "messages" THEN state.messages \o update.messages
             ELSE update[k]
        ELSE state[k]]

\* RuntimeContext of one agent.stream call (the db handle is shared and
\* read-only, and is left out).
get_default_context ==
    [user_first_name |-> <<>>, user_last_name |-> <<>>,
     has_valid_name |-> FALSE]

NAME_DIRECTIVE == <<"You must first collect the user's first and last name">>

USABLE_TABLES == <<"Customer", "Invoice">>

\* SQL_EXECUTION_AGENT_PROMPT_TEMPLATE.format(...)
SQL_EXECUTION_AGENT_PROMPT(available_tables, first, last) ==
    <<"sql agent template", available_tables, first, last>>

\* The ModelRequest create_agent builds: every tool, no system prompt.
BaseModelRequest == [tools |-> AllTools, system_prompt |-> None]

\* require_valid_name without the assignment to request.tools.
require_valid_name_keeps_tools(request, context) ==
    IF ~context.has_valid_name
    THEN [request EXCEPT !.system_prompt = Some(NAME_DIRECTIVE)]
    ELSE request

\* @wrap_model_call require_valid_name, up to its call of handler(request).
require_valid_name(request, context) ==
    IF ~context.has_valid_name
    THEN [request EXCEPT !.tools = {"update_user_name"},
                         !.system_prompt = Some(NAME_DIRECTIVE)]
    ELSE request

\* @dynamic_prompt dynamic_system_prompt: sets the request's system prompt
\* to the formatted template, then calls handler(request).
dynamic_system_prompt(request, context) ==
    [request EXCEPT !.system_prompt =
        Some(SQL_EXECUTION_AGENT_PROMPT(USABLE_TABLES,
                 context.user_first_name, context.user_last_name))]

\* middleware=[require_valid_name, dynamic_system_prompt]: the first hook is
\* the outermost, so its handler is the second hook, whose handler is the
\* model. The result is the request the model receives.
MiddlewareChain(context) ==
    dynamic_system_prompt(require_valid_name(BaseModelRequest, context),
                          context)

\* Statements the model may pass to execute_sql.
SqlQueries == { <<"SELECT 1">>, <<"SELEC">> }

\* db.run(query): the rows, or the engine's failure.
DbRun(query) ==
    IF query = <<"SELECT 1">> THEN [ok |-> TRUE, value |-> <<"[(1,)]">>]
    ELSE [ok |-> FALSE, value |-> <<"syntax error">>]

\* execute_sql returning the failure description without the "Error: " tag.
execute_sql_bare(query) == DbRun(query).value

\* The tool's return value, as the text of the tool message.
execute_sql(query) ==
    IF DbRun(query).ok THEN DbRun(query).value
    ELSE <<"Error: ">> \o DbRun(query).value

\* ------------------------------------------------------------------ response

\* The text one part of a list content contributes: item["text"] of a dict
\* with a text key, the item itself when it is a str, str(item) otherwise.
PartText(item) ==
    CASE item[1] = "text_dict" -> item[2]
      [] item[1] = "str"       -> item[2]
      [] OTHER                 -> <<"repr">> \o item[2]

RECURSIVE JoinParts(_)
\* " ".join(text_parts)
JoinParts(parts) ==
    IF parts = <<>> THEN <<>>
    ELSE IF Len(parts) = 1 THEN PartText(parts[1])
    ELSE PartText(parts[1]) \o <<" ">> \o JoinParts(Tail(parts))

\* message is an Optional message.
extract_message_content(message) ==
    IF message = None THEN NO_RESPONSE
    ELSE LET content == message[1].content
         IN  CASE content[1] = "none" -> NO_RESPONSE
               [] content[1] = "str"  -> content[2]
               [] content[1] = "list" ->
                     IF content[2] # <<>> THEN JoinParts(content[2])
                     ELSE NO_RESPONSE
               [] OTHER -> <<"repr">>

\* The scan run from the front: the index of the first AIMessage among the
\* first i messages, 0 when there is none.
ScanForwardAI(all_messages, i) ==
    IF \E k \in 1..i : all_messages[k].type = "ai"
    THEN CHOOSE k \in 1..i :
            /\ all_messages[k].type = "ai"
            /\ \A j \in 1..(k - 1) : all_messages[j].type # "ai"
    ELSE 0

RECURSIVE ScanBackAI(_, _)
\* for msg in reversed(all_messages): if isinstance(msg, AIMessage): break
\* The index of the message the loop stops at, 0 when it runs to the end.
ScanBackAI(all_messages, i) ==
    IF i = 0 THEN 0
    ELSE IF all_messages[i].type = "ai" THEN i
    ELSE ScanBackAI(all_messages, i - 1)

\* response_content of chat, lines 630-652.
response_content(last_message, all_messages) ==
    IF last_message # None
    THEN LET i == ScanBackAI(all_messages, Len(all_messages))
         IN  IF i # 0 THEN extract_message_content(Some(all_messages[i]))
             ELSE extract_message_content(last_message)
    ELSE NO_RESPONSE

IsUserMessage(msg, text) ==
    msg.type = "human" /\ msg.content[1] = "str" /\ msg.content[2] = text

\* The scan run from the front: the index of the first of the first i
\* messages that is the submitted user message, 0 when there is none.
ScanForwardHuman(all_messages, text, i) ==
    IF \E k \in 1..i : IsUserMessage(all_messages[k], text)
    THEN CHOOSE k \in 1..i :
            /\ IsUserMessage(all_messages[k], text)
            /\ \A j \in 1..(k - 1) : ~IsUserMessage(all_messages[j], text)
    ELSE 0

RECURSIVE ScanBackHuman(_, _, _)
\* The index at which the reversed scan for the submitted message stops.
ScanBackHuman(all_messages, text, i) ==
    IF i = 0 THEN 0
    ELSE IF IsUserMessage(all_messages[i], text) THEN i
    ELSE ScanBackHuman(all_messages, text, i - 1)

turn_messages(all_messages, text) ==
    LET i == ScanBackHuman(all_messages, text, Len(all_messages))
    IN  IF i # 0 THEN SubSeq(all_messages, i, Len(all_messages))
        ELSE all_messages

ToolCallInfo(tc) ==
    [tool_name |-> tc.name, args |-> tc.args, tool_call_id |-> tc.id,
     output |-> None]

\* tool_calls_map[tc_id] = info: a dict keeps the position of a key it
\* already holds and replaces its value.
MapPut(map, info) ==
    IF \E k \in 1..Len(map) : map[k].tool_call_id = info.tool_call_id
    THEN [k \in 1..Len(map) |->
             IF map[k].tool_call_id = info.tool_call_id THEN info ELSE map[k]]
    ELSE Append(map, info)

RECURSIVE MapPutCalls(_, _)
MapPutCalls(map, calls) ==
    IF calls = <<>> THEN map
    ELSE MapPutCalls(
            IF Head(calls).id # 0 THEN MapPut(map, ToolCallInfo(Head(calls)))
            ELSE map,
            Tail(calls))

\* str(msg.content)
StrOfContent(content) ==
    IF content[1] = "str" THEN content[2] ELSE <<"repr">>

\* An output assignment that makes an entry for an id the map does not hold.
MapSetOutput_adds(map, msg) ==
    IF \E k \in 1..Len(map) : map[k].tool_call_id = msg.tool_call_id
    THEN [k \in 1..Len(map) |->
             IF map[k].tool_call_id = msg.tool_call_id
             THEN [map[k] EXCEPT !.output = Some(StrOfContent(msg.content))]
             ELSE map[k]]
    ELSE Append(map, [tool_name |-> "unknown", args |-> <<>>,
                      tool_call_id |-> msg.tool_call_id,
                      output |-> Some(StrOfContent(msg.content))])

\* if tc_id in tool_calls_map: tool_calls_map[tc_id].output = str(content)
MapSetOutput(map, msg) ==
    [k \in 1..Len(map) |->
        IF map[k].tool_call_id = msg.tool_call_id
        THEN [map[k] EXCEPT !.output = Some(StrOfContent(msg.content))]
        ELSE map[k]]

RECURSIVE tool_calls_map(_, _)
\* The loop of lines 593-608 over the turn's messages, from an initial map.
tool_calls_map(map, msgs) ==
    IF msgs = <<>> THEN map
    ELSE LET msg == Head(msgs)
             m1  == IF msg.type = "ai" THEN MapPutCalls(map, msg.tool_calls)
                    ELSE map
             m2  == IF msg.type = "tool" THEN MapSetOutput(m1, msg) ELSE m1
         IN  tool_calls_map(m2, Tail(msgs))

\* The body of a successful ChatResponse.
ChatResponse(last_message, all_messages, text) ==
    LET turn == turn_messages(all_messages, text)
    IN  [response   |-> response_content(last_message, all_messages),
         step_count |-> Len(turn),
         tool_calls |-> tool_calls_map(<<>>, turn)]

\* ------------------------------------------------------------------ reads

\* dt.isoformat() if dt else None, of an Optional timestamp.
IsoFormat(dt) == IF dt = None THEN None ELSE Some(<<"iso", dt[1]>>)

get_thread_metadata(reg, thread_id) ==
    LET messages == get_thread_messages_from_registry(reg, thread_id)
        present  == thread_id \in DOMAIN reg
    IN  [thread_id     |-> thread_id,
         created_at    |-> IF present THEN Some(reg[thread_id].created_at)
                           ELSE None,
         last_activity |-> IF present THEN Some(reg[thread_id].last_activity)
                           ELSE None,
         title         |-> IF present THEN reg[thread_id].title
                           ELSE NEW_CONVERSATION,
         message_count |-> Len(messages)]

\* ThreadInfo(...) as the routes build it from the metadata.
ThreadInfo(metadata) ==
    [thread_id     |-> metadata.thread_id,
     created_at    |-> IsoFormat(metadata.created_at),
     last_activity |-> IsoFormat(metadata.last_activity),
     title         |-> metadata.title,
     message_count |-> metadata.message_count]

\* MessageModel of a message: its role and its text (the id and the
\* serialisation timestamp are left out).
serialize_message(message) ==
    [role    |-> CASE message.type = "human" -> "user"
                   [] message.type = "ai"    -> "assistant"
                   [] OTHER                  -> message.type,
     content |-> extract_message_content(Some(message))]

\* seq[offset : offset + limit] for offset >= 0 and limit >= 0.
Slice(seq, offset, limit) ==
    SubSeq(seq, offset + 1,
           IF offset + limit < Len(seq) THEN offset + limit ELSE Len(seq))

\* The stored messages served newest first.
get_thread_messages_reversed(reg, thread_id, limit, offset) ==
    LET messages == get_thread_messages_from_registry(reg, thread_id)
        n        == Len(messages)
    IN  [messages  |-> Slice([i \in 1..n |->
                                serialize_message(messages[n + 1 - i])],
                            offset, limit),
         thread_id |-> thread_id, total |-> n,
         limit |-> limit, offset |-> offset]

\* The body of GET /threads/{thread_id}/messages.
get_thread_messages(reg, thread_id, limit, offset) ==
    LET messages == get_thread_messages_from_registry(reg, thread_id)
    IN  IF messages = <<>>
        THEN [messages |-> <<>>, thread_id |-> thread_id, total |-> 0,
              limit |-> limit, offset |-> offset]
        ELSE LET serialized_messages ==
                     [i \in 1..Len(messages) |->
                         serialize_message(messages[i])]
             IN  [messages  |-> Slice(serialized_messages, offset, limit),
                  thread_id |-> thread_id,
                  total     |-> Len(serialized_messages),
                  limit |-> limit, offset |-> offset]

\* seq without its i-th element.
RemoveAt(seq, i) == SubSeq(seq, 1, i - 1) \o SubSeq(seq, i + 1, Len(seq))

RECURSIVE SortedAsc(_, _)
\* The ids sorted by last_activity, oldest first.
SortedAsc(reg, all_threads) ==
    IF all_threads = <<>> THEN <<>>
    ELSE LET i == CHOOSE k \in 1..Len(all_threads) :
                    /\ \A j \in 1..Len(all_threads) :
                          reg[all_threads[j]].last_activity
                              >= reg[all_threads[k]].last_activity
                    /\ \A j \in 1..(k - 1) :
                          reg[all_threads[j]].last_activity
                              > reg[all_threads[k]].last_activity
         IN  <<all_threads[i]>> \o SortedAsc(reg, RemoveAt(all_threads, i))

RECURSIVE SortedDesc(_, _)
\* sorted(all_threads, key=last_activity, reverse=True): the sort is stable,
\* ids of equal last_activity keep the order they have in all_threads.
SortedDesc(reg, all_threads) ==
    IF all_threads = <<>> THEN <<>>
    ELSE LET i == CHOOSE k \in 1..Len(all_threads) :
                    /\ \A j \in 1..Len(all_threads) :
                          reg[all_threads[j]].last_activity
                              <= reg[all_threads[k]].last_activity
                    /\ \A j \in 1..(k - 1) :
                          reg[all_threads[j]].last_activity
                              < reg[all_threads[k]].last_activity
         IN  <<all_threads[i]>> \o SortedDesc(reg, RemoveAt(all_threads, i))

\* The body of GET /threads; all_threads is list(thread_registry.keys()).
list_threads(reg, all_threads, limit, offset) ==
    LET paginated_threads ==
            Slice(SortedDesc(reg, all_threads), offset, limit)
    IN  [threads |-> [i \in 1..Len(paginated_threads) |->
                        ThreadInfo(get_thread_metadata(reg,
                                       paginated_threads[i]))],
         total   |-> Len(all_threads),
         limit |-> limit, offset |-> offset]

\* Query(ge=1, le=100) and Query(ge=1, le=200) on limit.
ListLimitMax == 100
MessagesLimitMax == 200

\* ------------------------------------------------------------------ errors

\* A failure of the invocation loop, reduced to what chat looks at: whether
\* it is a ValueError, and which of the three substrings its text holds.
Exceptions ==
    { [value_error |-> TRUE,  validation |-> FALSE, string_type |-> FALSE,
       valid_string |-> FALSE, text |-> <<"bad value">>],
      [value_error |-> FALSE, validation |-> TRUE,  string_type |-> FALSE,
       valid_string |-> FALSE, text |-> <<"Validation Error in step">>],
      [value_error |-> FALSE, validation |-> FALSE, string_type |-> TRUE,
       valid_string |-> FALSE, text |-> <<"type=string_type">>],
      [value_error |-> FALSE, validation |-> FALSE, string_type |-> FALSE,
       valid_string |-> FALSE, text |-> <<"connection reset">>] }

HTTPException(status_code, detail) ==
    [status_code |-> status_code, detail |-> detail]

\* asyncio.TimeoutError handler of chat, lines 559-563.
timeout_response == HTTPException(504, <<"Request timeout.">>)

\* The except clauses of chat for an exception raised inside the try block,
\* lines 668-696.
error_response(e) ==
    IF e.value_error
    THEN HTTPException(400, <<"Invalid request: ">> \o e.text)
    ELSE IF e.validation
    THEN HTTPException(500, <<"unexpected response format">>)
    ELSE IF e.string_type \/ e.valid_string
    THEN HTTPException(500, <<"response could not be processed">>)
    ELSE HTTPException(500, <<"Agent error: ">> \o e.text)

\* Request validation of the ChatRequest body, before chat runs.
validation_response == HTTPException(422, <<"Unprocessable Entity">>)

\* ------------------------------------------------------------------ state

VARIABLES
    thread_registry,  \* thread id -> entry, for the ids that have one
    checkpoint,       \* thread id -> graph state kept by the checkpointer
    now,              \* the last value datetime.now returned
    req,              \* request slot -> the chat request in flight on it
    requests,         \* the number of state-changing requests received
    response          \* the response this step sends (NoResponse if none)

vars == <<thread_registry, checkpoint, now, req, requests, response, db>>

InitialState ==
    [messages |-> <<>>, user_first_name |-> <<>>, user_last_name |-> <<>>,
     has_valid_name |-> FALSE]

\* st: "idle", "waiting" (chat awaits the worker) or "abandoned" (chat has
\* answered 504 and the worker still runs).  wk, the worker: "none",
\* "running" (process_agent has started), "agent" (before a model call),
\* "tools" (before a tool call) or "returned".  entry_before keeps the registry entry
\* of the thread as the request found it (None when it had none).
IdleReq ==
    [st |-> "idle", thread_id |-> "", message |-> <<>>,
     context |-> get_default_context, wk |-> "none",
     model_request |-> None, pending |-> None, outcome |-> None,
     entry_before |-> None]

\* request is what the request supplied where the answer does not show it
\* (the title handed to POST /threads), None elsewhere.
NoResponse ==
    [route |-> "", thread_id |-> "", status |-> 0, body |-> None,
     entry_before |-> None, request |-> None]

Init ==
    /\ thread_registry = <<>>
    /\ checkpoint = [t \in ThreadIds |-> InitialState]
    /\ now = 0
    /\ req = [r \in Reqs |-> IdleReq]
    /\ requests = 0
    /\ response = NoResponse
    /\ db = CustomerTable

\* The value datetime.now returns next: later than the one before, until the
\* clock reaches MaxTime; from then on calls are too close to tell apart.
Clock == { IF now < MaxTime THEN now + 1 ELSE now }

EntryOf(reg, thread_id) ==
    IF thread_id \in DOMAIN reg THEN Some(reg[thread_id]) ELSE None

\* uuid.uuid4(): an id nothing has used.
FreshIds ==
    { t \in ThreadIds :
        /\ t \notin DOMAIN thread_registry
        /\ checkpoint[t] = InitialState
        /\ \A r \in Reqs : req[r].thread_id # t }

\* The response chat sends for the request on slot r.
Respond(r, status, body) ==
    [route |-> "POST /chat", thread_id |-> req[r].thread_id,
     status |-> status, body |-> Some(body),
     entry_before |-> req[r].entry_before, request |-> None]

\* The response of a route other than POST /chat.
RouteResponse(route, thread_id, status, body) ==
    [route |-> route, thread_id |-> thread_id, status |-> status,
     body |-> Some(body), entry_before |-> None, request |-> None]

\* ------------------------------------------------------------------ agent loop

\* What the model may answer to a request: a final message, or one call of a
\* tool it was offered.
ModelAnswers(request, id) ==
    { AIMessage(Str(<<"o","k">>), <<>>) }
    \cup { AIMessage(Str(<<>>),
               << ToolCall("update_user_name", np, id) >>) :
             np \in { p \in NamePairs : "update_user_name" \in request.tools } }
    \cup { AIMessage(Str(<<>>), << ToolCall("execute_sql", q, id) >>) :
             q \in { p \in SqlQueries : "execute_sql" \in request.tools } }

\* The graph state after the tool node has run the call tc.
RunTool(state, tc) ==
    IF tc.name = "update_user_name"
    THEN ApplyCommand(state,
             update_user_name(tc.args[1], tc.args[2], tc.id))
    ELSE ApplyCommand(state,
             [messages |-> << ToolMessage(execute_sql(tc.args), tc.id) >>])

RECURSIVE LoopFrom(_, _, _)
\* The graph states in which agent.stream calls the model or ends, from a
\* state in which the model is called next and with calls tool calls left;
\* done marks those that end the stream.
LoopFrom(state, context, calls) ==
    LET n       == Len(state.messages)
        request == MiddlewareChain(context)
    IN  {[state |-> state, done |-> FALSE]}
        \cup
        (IF n < MaxMsgs
         THEN UNION {
                LET after == [state EXCEPT !.messages = Append(@, ai)]
                IN  IF ai.tool_calls = <<>>
                    THEN {[state |-> after, done |-> TRUE]}
                    ELSE IF n + 1 < MaxMsgs /\ calls > 0
                    THEN LoopFrom(RunTool(after, ai.tool_calls[1]), context,
                                  calls - 1)
                    ELSE {}
                : ai \in ModelAnswers(request, n + 1) }
         ELSE {})

\* The states one agent.stream call on a thread may stop in.
TurnOutcomes(state, message, context) ==
    IF Len(state.messages) < MaxMsgs
    THEN LoopFrom([state EXCEPT !.messages =
                      Append(@, HumanMessage(message))], context,
                  MaxLoopCalls)
    ELSE {}

\* What process_agent returns for the last snapshot of the stream.
ProcessResult(messages) ==
    [last_message |-> IF messages # <<>> THEN Some(messages[Len(messages)])
                      ELSE None,
     all_messages |-> messages]

\* ------------------------------------------------------------------ POST /chat

\* A body that fails ChatRequest validation never reaches chat.
ChatMalformed ==
    /\ response' = [NoResponse EXCEPT
                       !.route = "POST /chat",
                       !.status = validation_response.status_code,
                       !.body = Some(validation_response.detail)]
    /\ UNCHANGED <<thread_registry, checkpoint, now, req, requests, db>>

\* Requests take the first idle slot.
FirstIdle(r) ==
    /\ req[r].st = "idle"
    /\ r = "r2" => req["r1"].st # "idle"

\* chat up to the await: lines 521-530 and the start of the worker, 556-557.
ChatStart(r, tid, message) ==
    /\ FirstIdle(r)
    /\ requests < MaxRequests
    /\ requests' = requests + 1
    /\ \E thread_id \in (IF tid # None THEN {tid[1]} ELSE FreshIds),
          n \in Clock :
        /\ now' = n
        /\ thread_registry' =
              IF thread_id \notin DOMAIN thread_registry
              THEN update_thread_registry(thread_registry, thread_id,
                       Some(generate_thread_title(message)), TRUE, None, n)
              ELSE update_thread_registry(thread_registry, thread_id,
                       None, FALSE, None, n)
        /\ req' = [req EXCEPT ![r] =
                     [IdleReq EXCEPT
                         !.st = "waiting",
                         !.thread_id = thread_id,
                         !.message = message,
                         !.context = get_default_context,
                         !.wk = "running",
                         !.entry_before =
                             EntryOf(thread_registry, thread_id)]]
    /\ response' = NoResponse
    /\ UNCHANGED <<checkpoint, db>>

\* The slot of a worker that returns: chat still awaits it, or nobody does.
WorkerReturns(r, request, outcome) ==
    IF req[r].st = "abandoned" THEN IdleReq
    ELSE [req[r] EXCEPT !.wk = "returned", !.pending = None,
                        !.model_request = Some(request),
                        !.outcome = Some(outcome)]

\* process_agent handing agent.stream one context object that all requests
\* share and that holds the name last validated on any thread.
ProcessAgent_shared(r) ==
    /\ req[r].wk = "running"
    /\ LET t == req[r].thread_id
           context ==
               IF \E a \in ThreadIds : checkpoint[a].has_valid_name
               THEN LET a == CHOOSE a \in ThreadIds :
                                checkpoint[a].has_valid_name
                    IN  [user_first_name |-> checkpoint[a].user_first_name,
                         user_last_name  |-> checkpoint[a].user_last_name,
                         has_valid_name  |-> TRUE]
               ELSE req[r].context
       IN  \E o \in TurnOutcomes(checkpoint[t], req[r].message, context) :
              /\ o.done
              /\ checkpoint' = [checkpoint EXCEPT ![t] = o.state]
              /\ req' = [req EXCEPT ![r] =
                    WorkerReturns(r, MiddlewareChain(context),
                                  ProcessResult(o.state.messages))]
    /\ response' = NoResponse
    /\ UNCHANGED <<thread_registry, now, requests, db>>

\* process_agent, lines 535-553, as one step: the stream runs to its end.
ProcessAgent(r) ==
    /\ req[r].wk = "running"
    /\ LET t == req[r].thread_id
       IN  \E o \in TurnOutcomes(checkpoint[t], req[r].message,
                                 req[r].context) :
              /\ o.done
              /\ checkpoint' = [checkpoint EXCEPT ![t] = o.state]
              /\ req' = [req EXCEPT ![r] =
                    WorkerReturns(r, MiddlewareChain(req[r].context),
                                  ProcessResult(o.state.messages))]
    /\ response' = NoResponse
    /\ UNCHANGED <<thread_registry, now, requests, db>>

\* The answer of chat's except clauses, lines 668-696, when the worker raises
\* while chat awaits it.
RaiseResponse(r, e) ==
    IF req[r].st = "waiting"
    THEN Respond(r, error_response(e).status_code, error_response(e).detail)
    ELSE NoResponse

\* process_agent raises somewhere in the stream, as one step.
ProcessAgentRaise(r, e) ==
    /\ req[r].wk = "running"
    /\ LET t == req[r].thread_id
       IN  \E o \in {[state |-> checkpoint[t], done |-> FALSE]}
                    \cup TurnOutcomes(checkpoint[t], req[r].message,
                                      req[r].context) :
              /\ ~o.done
              /\ checkpoint' = [checkpoint EXCEPT ![t] = o.state]
    /\ response' = RaiseResponse(r, e)
    /\ req' = [req EXCEPT ![r] = IdleReq]
    /\ UNCHANGED <<thread_registry, now, requests, db>>

\* A timeout handler that salvages the partial trace into the registry.
ChatTimeout_stores(r) ==
    /\ req[r].st = "waiting"
    /\ req[r].wk \in {"running", "agent", "tools"}
    /\ response' = Respond(r, timeout_response.status_code,
                           timeout_response.detail)
    /\ req' = [req EXCEPT ![r].st = "abandoned"]
    /\ thread_registry' =
          update_thread_registry(thread_registry, req[r].thread_id, None,
              FALSE, Some(checkpoint[req[r].thread_id].messages), now)
    /\ UNCHANGED <<checkpoint, now, requests, db>>

\* An await without a timeout: chat never gives up on a running worker.
ChatTimeout_unbounded(r) ==
    /\ req[r].st = "waiting"
    /\ req[r].wk \in {"running", "agent", "tools"}
    /\ FALSE
    /\ UNCHANGED vars

\* asyncio.wait_for gives up on a worker that is still running; the worker
\* thread is not stopped.
ChatTimeout(r) ==
    /\ req[r].st = "waiting"
    /\ req[r].wk \in {"running", "agent", "tools"}
    /\ response' = Respond(r, timeout_response.status_code,
                           timeout_response.detail)
    /\ req' = [req EXCEPT ![r].st = "abandoned"]
    /\ UNCHANGED <<thread_registry, checkpoint, now, requests, db>>

\* The worker returned in time: lines 565-666.
ChatComplete(r) ==
    /\ req[r].st = "waiting"
    /\ req[r].wk = "returned"
    /\ \E n \in Clock :
        /\ now' = n
        /\ thread_registry' =
              update_thread_registry(thread_registry, req[r].thread_id, None,
                  FALSE, Some(req[r].outcome[1].all_messages), n)
    /\ response' =
          Respond(r, 200, ChatResponse(req[r].outcome[1].last_message,
                                       req[r].outcome[1].all_messages,
                                       req[r].message))
    /\ req' = [req EXCEPT ![r] = IdleReq]
    /\ UNCHANGED <<checkpoint, requests, db>>

\* ------------------------------------------------------------------ agent steps

\* agent.stream starts: the input message joins the thread's state.
WorkerBegin(r) ==
    /\ req[r].wk = "running"
    /\ Len(checkpoint[req[r].thread_id].messages) < MaxMsgs
    /\ checkpoint' = [checkpoint EXCEPT ![req[r].thread_id].messages =
                         Append(@, HumanMessage(req[r].message))]
    /\ req' = [req EXCEPT ![r].wk = "agent"]
    /\ response' = NoResponse
    /\ UNCHANGED <<thread_registry, now, requests, db>>

\* One model call: the middleware chain builds the request, the model answers.
ModelStep(r) ==
    /\ req[r].wk = "agent"
    /\ LET t       == req[r].thread_id
           request == MiddlewareChain(req[r].context)
           n       == Len(checkpoint[t].messages)
       IN  /\ n < MaxMsgs
           /\ \E ai \in ModelAnswers(request, n + 1) :
                /\ ai.tool_calls # <<>> => n + 1 < MaxMsgs
                /\ checkpoint' = [checkpoint EXCEPT ![t].messages =
                                     Append(@, ai)]
                /\ req' = [req EXCEPT ![r] =
                     IF ai.tool_calls # <<>>
                     THEN [@ EXCEPT !.model_request = Some(request),
                                    !.wk = "tools",
                                    !.pending = Some(ai.tool_calls[1])]
                     ELSE WorkerReturns(r, request,
                              ProcessResult(Append(checkpoint[t].messages,
                                                   ai)))]
    /\ response' = NoResponse
    /\ UNCHANGED <<thread_registry, now, requests, db>>

\* The pending call is one whose tool function raises.
ToolRaises(tc) ==
    /\ tc.name = "update_user_name"
    /\ customer_exists_raises(tc.args[1], tc.args[2])

\* What db.run raises on a statement it cannot parse.
OperationalError ==
    [value_error |-> FALSE, validation |-> FALSE, string_type |-> FALSE,
     valid_string |-> FALSE, text |-> <<"syntax error">>]

\* The tool node runs the pending call and the tool function raises: nothing
\* in update_user_name or customer_exists catches the failure, and it leaves
\* agent.stream as any other failure of the loop.
ToolStepRaise(r) ==
    /\ req[r].wk = "tools"
    /\ ToolRaises(req[r].pending[1])
    /\ response' = RaiseResponse(r, OperationalError)
    /\ req' = [req EXCEPT ![r] = IdleReq]
    /\ UNCHANGED <<thread_registry, checkpoint, now, requests, db>>

\* The tool node runs the pending call.
ToolStep(r) ==
    /\ req[r].wk = "tools"
    /\ ~ToolRaises(req[r].pending[1])
    /\ checkpoint' = [checkpoint EXCEPT ![req[r].thread_id] =
                         RunTool(@, req[r].pending[1])]
    /\ req' = [req EXCEPT ![r].wk = "agent", ![r].pending = None]
    /\ response' = NoResponse
    /\ UNCHANGED <<thread_registry, now, requests, db>>

\* A failure path that stores the trace reached so far in the registry.
WorkerRaise_stores(r, e) ==
    /\ req[r].wk \in {"running", "agent", "tools"}
    /\ response' = RaiseResponse(r, e)
    /\ req' = [req EXCEPT ![r] = IdleReq]
    /\ thread_registry' =
          update_thread_registry(thread_registry, req[r].thread_id, None,
              FALSE, Some(checkpoint[req[r].thread_id].messages), now)
    /\ UNCHANGED <<checkpoint, now, requests, db>>

\* The invocation loop fails at its current step.
WorkerRaise(r, e) ==
    /\ req[r].wk \in {"running", "agent", "tools"}
    /\ response' = RaiseResponse(r, e)
    /\ req' = [req EXCEPT ![r] = IdleReq]
    /\ UNCHANGED <<thread_registry, checkpoint, now, requests, db>>

\* ------------------------------------------------------------------ threads

\* POST /threads
CreateThread(tid, title) ==
    /\ requests < MaxRequests
    /\ requests' = requests + 1
    /\ \E thread_id \in (IF tid # None THEN {tid[1]} ELSE FreshIds),
          n \in Clock :
        /\ now' = n
        /\ thread_registry' =
              update_thread_registry(thread_registry, thread_id, title, TRUE,
                                     None, n)
        /\ response' =
              [RouteResponse("POST /threads", thread_id, 201,
                   ThreadInfo(get_thread_metadata(thread_registry',
                                                  thread_id)))
               EXCEPT !.entry_before = EntryOf(thread_registry, thread_id),
                      !.request = Some(title)]
    /\ UNCHANGED <<checkpoint, req, db>>

\* DELETE /threads/{thread_id}
DeleteThread(thread_id) ==
    /\ requests < MaxRequests
    /\ requests' = requests + 1
    /\ thread_registry' = delete_thread(thread_registry, thread_id)
    /\ response' =
          RouteResponse("DELETE /threads/{thread_id}", thread_id, 200,
              [thread_id |-> thread_id, status |-> "deleted"])
    /\ UNCHANGED <<checkpoint, now, req, db>>

\* A GET /threads/{thread_id} that registers the id it is asked about.
GetThread_creates(thread_id) ==
    /\ thread_registry' =
          IF thread_id \in DOMAIN thread_registry THEN thread_registry
          ELSE update_thread_registry(thread_registry, thread_id, None, TRUE,
                                      None, now)
    /\ response' =
          RouteResponse("GET /threads/{thread_id}", thread_id, 200,
              ThreadInfo(get_thread_metadata(thread_registry, thread_id)))
    /\ UNCHANGED <<checkpoint, now, req, requests, db>>

\* GET /threads/{thread_id}
GetThread(thread_id) ==
    /\ response' =
          RouteResponse("GET /threads/{thread_id}", thread_id, 200,
              ThreadInfo(get_thread_metadata(thread_registry, thread_id)))
    /\ UNCHANGED <<thread_registry, checkpoint, now, req, requests, db>>

\* GET /threads/{thread_id}/messages?limit&offset
GetThreadMessages(thread_id, limit, offset) ==
    /\ response' =
          IF limit >= 1 /\ limit <= MessagesLimitMax /\ offset >= 0
          THEN RouteResponse("GET /threads/{thread_id}/messages", thread_id,
                   200,
                   get_thread_messages(thread_registry, thread_id, limit,
                                       offset))
          ELSE RouteResponse("GET /threads/{thread_id}/messages", thread_id,
                   validation_response.status_code,
                   validation_response.detail)
    /\ UNCHANGED <<thread_registry, checkpoint, now, req, requests, db>>

\* The orders list(thread_registry.keys()) may have: the insertion order of
\* the ids, which the registry of the model does not keep.
KeyOrders(reg) ==
    { order \in [1..Cardinality(DOMAIN reg) -> DOMAIN reg] :
        \A i, j \in DOMAIN order : order[i] = order[j] => i = j }

\* GET /threads?limit&offset
ListThreads(limit, offset) ==
    /\ \E all_threads \in KeyOrders(thread_registry) :
          response' =
              IF limit >= 1 /\ limit <= ListLimitMax /\ offset >= 0
              THEN RouteResponse("GET /threads", "", 200,
                       list_threads(thread_registry, all_threads, limit,
                                    offset))
              ELSE RouteResponse("GET /threads", "",
                       validation_response.status_code,
                       validation_response.detail)
    /\ UNCHANGED <<thread_registry, checkpoint, now, req, requests, db>>

\* ------------------------------------------------------------------ specs

OptThreadIds == {None} \cup { Some(t) : t \in ThreadIds }

\* The server: overlapping requests on the registry, each worker's
\* agent.stream call taken as one step.
Next ==
    \/ ChatMalformed
    \/ \E r \in Reqs, tid \in OptThreadIds, m \in ChatMessages :
          ChatStart(r, tid, m)
    \/ \E r \in Reqs : ProcessAgent(r)
    \/ \E r \in Reqs, e \in Exceptions : ProcessAgentRaise(r, e)
    \/ \E r \in Reqs : ChatTimeout(r)
    \/ \E r \in Reqs : ChatComplete(r)
    \/ \E tid \in OptThreadIds, title \in CreateTitles : CreateThread(tid, title)
    \/ \E t \in ThreadIds : DeleteThread(t)

Spec == Init /\ [][Next]_vars

\* The agent: chat requests one at a time, each agent.stream call taken
\* model call by model call and tool call by tool call.
NextAgent ==
    \/ \E tid \in OptThreadIds, m \in ChatMessages :
          (\A q \in Reqs : req[q].st = "idle") /\ ChatStart("r1", tid, m)
    \/ \E r \in Reqs : WorkerBegin(r)
    \/ \E r \in Reqs : ModelStep(r)
    \/ \E r \in Reqs : ToolStep(r)
    \/ \E r \in Reqs, e \in Exceptions : WorkerRaise(r, e)
    \/ \E r \in Reqs : ChatTimeout(r)
    \/ \E r \in Reqs : ChatComplete(r)

SpecAgent == Init /\ [][NextAgent]_vars

\* Overlapping chat requests only.
NextLive ==
    \/ \E r \in Reqs, tid \in OptThreadIds, m \in ChatMessages :
          ChatStart(r, tid, m)
    \/ \E r \in Reqs : ProcessAgent(r)
    \/ \E r \in Reqs, e \in Exceptions : ProcessAgentRaise(r, e)
    \/ \E r \in Reqs : ChatTimeout(r)
    \/ \E r \in Reqs : ChatComplete(r)

\* chat runs on the event loop, which no handler blocks (the invocation loop
\* runs in a thread of its own): the timer of asyncio.wait_for fires and a
\* finished await resumes.  Nothing makes a worker thread go on or finish.
Fairness == \A r \in Reqs : WF_vars(ChatTimeout(r) \/ ChatComplete(r))

SpecLive == Init /\ [][NextLive]_vars /\ Fairness

\* ------------------------------------------------------------------ reads of the registry

\* Cap on the limit and offset values of GET /threads.
MaxPage == 3

\* limit and offset values: in range, below the range and above it.
ListLimits == 0..MaxPage \cup {ListLimitMax + 1}
ListOffsets == (-1)..MaxPage
MessageLimits == {0, MaxMsgs}
MessageOffsets == {0, 1}

\* limit and offset values of GET /threads between the other routes.
PageLimits == {0, MaxPage}
PageOffsets == {0, 1}

\* No chat request is in flight.
Quiet == \A q \in Reqs : req[q].st = "idle"

\* The routes, requests served one at a time and no invocation failing.
NextThreads ==
    \/ \E tid \in OptThreadIds, m \in ChatMessages :
          Quiet /\ ChatStart("r1", tid, m)
    \/ \E r \in Reqs : ProcessAgent(r)
    \/ \E r \in Reqs : ChatComplete(r)
    \/ \E tid \in OptThreadIds, title \in CreateTitles :
          Quiet /\ CreateThread(tid, title)
    \/ \E t \in ThreadIds : Quiet /\ DeleteThread(t)
    \/ \E t \in ThreadIds : Quiet /\ GetThread(t)
    \/ \E t \in ThreadIds, limit \in MessageLimits, offset \in MessageOffsets :
          Quiet /\ GetThreadMessages(t, limit, offset)
    \/ \E limit \in PageLimits, offset \in PageOffsets :
          Quiet /\ ListThreads(limit, offset)

SpecThreads == Init /\ [][NextThreads]_vars

\* Titles POST /threads may be handed: none, an empty one, a text.
ThreadTitles == CreateTitles \cup {Some(<<>>)}

\* Threads created, chatted on, deleted and created again, one request at
\* a time.
NextCreate ==
    \/ \E tid \in OptThreadIds, m \in ChatMessages :
          Quiet /\ ChatStart("r1", tid, m)
    \/ \E r \in Reqs : ProcessAgent(r)
    \/ \E r \in Reqs : ChatComplete(r)
    \/ \E tid \in OptThreadIds, title \in ThreadTitles :
          Quiet /\ CreateThread(tid, title)
    \/ \E t \in ThreadIds : Quiet /\ DeleteThread(t)

SpecCreate == Init /\ [][NextCreate]_vars

\* Thread ids of the registries GET /threads is applied to.
ListIds == ThreadIds \cup {"t3"}

\* Registries of threads created at time 1 and last active at any time since.
ListRegistries ==
    UNION { [ids -> { [created_at |-> 1, last_activity |-> la,
                       title |-> NEW_CONVERSATION, messages |-> <<>>] :
                      la \in 1..MaxTime }] : ids \in SUBSET ListIds }

InitList ==
    /\ thread_registry \in ListRegistries
    /\ checkpoint = [t \in ThreadIds |-> InitialState]
    /\ now = MaxTime
    /\ req = [r \in Reqs |-> IdleReq]
    /\ requests = 0
    /\ response = NoResponse
    /\ db = CustomerTable

NextList == \E limit \in ListLimits, offset \in ListOffsets :
                ListThreads(limit, offset)

SpecList == InitList /\ [][NextList]_vars

\* ------------------------------------------------------------------ title inputs

\* Cap on the number of letters of a message submitted as a first message.
MaxLetters == 53
\* Cap on the number of spaces before and after them.
MaxPad == 2

\* n copies of the character c.
Repeat(c, n) == [i \in 1..n |-> c]

\* First messages: spaces, an initial character, letters, spaces.
TitleInputs ==
    { Repeat(" ", lead) \o first \o Repeat("a", n) \o Repeat(" ", trail) :
        lead \in 0..MaxPad, trail \in 0..MaxPad, n \in 0..(MaxLetters - 1),
        first \in { <<>>, <<"h">>, <<"H">>, <<"ß">> } }

\* The first chat request the server receives, with any of the inputs.
NextTitle ==
    \E tid \in OptThreadIds, m \in TitleInputs :
        (\A q \in Reqs : req[q].st = "idle") /\ requests = 0
            /\ ChatStart("r1", tid, m)

SpecTitle == Init /\ [][NextTitle]_vars

\* ------------------------------------------------------------------ response text

\* Cap on the length of the traces the response extraction is applied to.
MaxTrace == 3

\* Messages a trace handed to the response extraction may hold.
TraceMessages ==
    { HumanMessage(<<"h","i">>),
      AIMessage(Str(<<"o","k">>), <<>>),
      AIMessage(<<"list", << <<"text_dict", <<"a">> >>, <<"str", <<"b">> >> >> >>,
                <<>>),
      AIMessage(<<"none">>, <<>>),
      ToolMessage(<<"r">>, 1) }

Traces == UNION { [1..n -> TraceMessages] : n \in 0..MaxTrace }

\* A first chat on thread t1 whose worker has just returned a trace.
InitResponse ==
    /\ now = 1
    /\ thread_registry =
          update_thread_registry(<<>>, "t1",
              Some(generate_thread_title(<<"h","i">>)), TRUE, None, 1)
    /\ req \in { [r \in Reqs |->
                    IF r = "r1"
                    THEN [IdleReq EXCEPT
                            !.st = "waiting", !.thread_id = "t1",
                            !.message = <<"h","i">>, !.wk = "returned",
                            !.model_request =
                                Some(MiddlewareChain(get_default_context)),
                            !.outcome = Some(ProcessResult(trace))]
                    ELSE IdleReq] : trace \in Traces }
    /\ checkpoint =
          [t \in ThreadIds |->
              IF t = "t1"
              THEN [InitialState EXCEPT
                      !.messages = req["r1"].outcome[1].all_messages]
              ELSE InitialState]
    /\ requests = 1
    /\ response = NoResponse
    /\ db = CustomerTable

\* Lines 565-666 of chat applied to the returned trace.
NextResponse == \E r \in Reqs : ChatComplete(r)

SpecResponse == InitResponse /\ [][NextResponse]_vars

\* ------------------------------------------------------------------ debug info

\* Cap on the length of the traces the debug extraction is applied to.
MaxTurn == 4

\* Messages of those traces: the submitted text and another one from the
\* user, answers with no call, with one call, with two calls (one reusing an
\* id) and with a call without id, and results for the ids 1, 2 and 3.
TurnMessages ==
    { HumanMessage(<<"h","i">>),
      HumanMessage(<<"y","o">>),
      AIMessage(Str(<<"o","k">>), <<>>),
      AIMessage(Str(<<>>), << ToolCall("execute_sql", <<"SELECT 1">>, 1) >>),
      AIMessage(Str(<<>>),
                << ToolCall("update_user_name",
                            << <<"j","o","e">>, <<"d","o","e">> >>, 1),
                   ToolCall("execute_sql", <<"SELEC">>, 2) >>),
      AIMessage(Str(<<>>), << ToolCall("execute_sql", <<"SELECT 1">>, 0) >>),
      ToolMessage(<<"r">>, 1),
      ToolMessage(<<"s">>, 2),
      ToolMessage(<<"x">>, 3) }

TurnTraces == UNION { [1..n -> TurnMessages] : n \in 0..MaxTurn }

\* A chat on thread t1 with the message "hi" whose worker has just returned
\* a trace.
InitDebug ==
    /\ now = 1
    /\ thread_registry =
          update_thread_registry(<<>>, "t1",
              Some(generate_thread_title(<<"h","i">>)), TRUE, None, 1)
    /\ req \in { [r \in Reqs |->
                    IF r = "r1"
                    THEN [IdleReq EXCEPT
                            !.st = "waiting", !.thread_id = "t1",
                            !.message = <<"h","i">>, !.wk = "returned",
                            !.model_request =
                                Some(MiddlewareChain(get_default_context)),
                            !.outcome = Some(ProcessResult(trace))]
                    ELSE IdleReq] : trace \in TurnTraces }
    /\ checkpoint =
          [t \in ThreadIds |->
              IF t = "t1"
              THEN [InitialState EXCEPT
                      !.messages = req["r1"].outcome[1].all_messages]
              ELSE InitialState]
    /\ requests = 1
    /\ response = NoResponse
    /\ db = CustomerTable

\* Lines 565-666 of chat applied to the returned trace.
NextDebug == \E r \in Reqs : ChatComplete(r)

SpecDebug == InitDebug /\ [][NextDebug]_vars

\* ------------------------------------------------------------------ tool inputs

\* Cap on the number of rows of the Customer table.
MaxRows == 2

CustomerRows ==
    { << <<"F","r","a","n","k">>, <<"H","a","r","r","i","s">> >>,
      << <<"A","n","n">>, <<"L","e","e">> >> }

\* Customer tables: the schema does not make (FirstName, LastName) unique.
CustomerTables == UNION { [1..n -> CustomerRows] : n \in 0..MaxRows }

FirstNames ==
    { <<"f","r","a","n","k">>, <<"F","R","A","N","K">>, <<"a","n","n">>,
      <<"o","'","b">> }

LastNames == { <<"h","a","r","r","i","s">>, <<"l","e","e">>, <<"d","'","a">> }

\* The calls the tool node may be handed.
ToolCalls ==
    { ToolCall("update_user_name", <<f, l>>, 2) :
          f \in FirstNames, l \in LastNames }
    \cup { ToolCall("execute_sql", q, 2) : q \in SqlQueries }

\* A first chat on thread t1 whose model call has just asked for a tool.
InitTools ==
    /\ db \in CustomerTables
    /\ now = 1
    /\ thread_registry =
          update_thread_registry(<<>>, "t1",
              Some(generate_thread_title(<<"h","i">>)), TRUE, None, 1)
    /\ req \in { [r \in Reqs |->
                    IF r = "r1"
                    THEN [IdleReq EXCEPT
                            !.st = "waiting", !.thread_id = "t1",
                            !.message = <<"h","i">>, !.wk = "tools",
                            !.model_request =
                                Some(MiddlewareChain(get_default_context)),
                            !.pending = Some(tc)]
                    ELSE IdleReq] : tc \in ToolCalls }
    /\ checkpoint =
          [t \in ThreadIds |->
              IF t = "t1"
              THEN [InitialState EXCEPT
                      !.messages =
                          << HumanMessage(<<"h","i">>),
                             AIMessage(Str(<<>>), <<req["r1"].pending[1]>>) >>]
              ELSE InitialState]
    /\ requests = 1
    /\ response = NoResponse

\* The tool node on the pending call.
NextTools ==
    \/ \E r \in Reqs : ToolStep(r)
    \/ \E r \in Reqs : ToolStepRaise(r)

SpecTools == InitTools /\ [][NextTools]_vars

\* ------------------------------------------------------------------ the name gate

\* The slots whose worker has called the model and has not run a tool since:
\* model_request is the request that call received, and the thread's graph
\* state is the one the call was made in.
ModelCalled == { r \in Reqs : req[r].wk \in {"tools", "returned"} }

\* The text update_user_name answers a rejected name pair with.
RejectionText(first, last) ==
    Title(first) \o <<" ">> \o Title(last) \o
    <<" is not a valid name in the database. Ask the user for a name that",
      " actually exists in the database. Dont call the user ">> \o first

\* C1: once update_user_name has stored a valid name on a thread
\* (has_valid_name is true in the thread's state), every model invocation on
\* that thread is offered the full tool set {execute_sql, update_user_name}.
C1_VerifiedGetsAllTools ==
    \A r \in ModelCalled :
        checkpoint[req[r].thread_id].has_valid_name
            => req[r].model_request[1].tools = AllTools

\* C2: a model invocation made while the thread's has_valid_name is false is
\* offered exactly {update_user_name}, and the tool calls reported for a turn
\* that ends with the flag still false name no tool but update_user_name.
C2_UnverifiedOnlyNameTool ==
    /\ \A r \in ModelCalled :
          ~checkpoint[req[r].thread_id].has_valid_name
              => req[r].model_request[1].tools = {"update_user_name"}
    /\ (response.status = 200
          /\ ~checkpoint[response.thread_id].has_valid_name)
          => \A k \in 1..Len(response.body[1].tool_calls) :
                response.body[1].tool_calls[k].tool_name = "update_user_name"

\* A turn on an unverified thread has answered 200 and reports a call of
\* update_user_name (the rejected pair joe doe).
C2_Witness ==
    /\ response.status = 200
    /\ ~checkpoint[response.thread_id].has_valid_name
    /\ Len(response.body[1].tool_calls) = 1
    /\ response.body[1].tool_calls[1].tool_name = "update_user_name"
    /\ response.body[1].tool_calls[1].output # None

\* C3: the system prompt that reaches the model while the thread's
\* has_valid_name is false is the name-collection directive.
C3_UnverifiedGetsDirective ==
    \A r \in ModelCalled :
        ~checkpoint[req[r].thread_id].has_valid_name
            => req[r].model_request[1].system_prompt = Some(NAME_DIRECTIVE)

\* C4: has_valid_name of a thread never goes from true to false.
C4_FlagMonotonic ==
    [][\A t \in ThreadIds :
          checkpoint[t].has_valid_name => checkpoint'[t].has_valid_name]_vars

\* A thread on which a valid name was stored and a later call of
\* update_user_name was rejected: the flag is still true.
C4_Witness ==
    \E t \in ThreadIds :
        /\ checkpoint[t].has_valid_name
        /\ \E i, j \in 1..Len(checkpoint[t].messages) :
              /\ i < j
              /\ checkpoint[t].messages[i] =
                    ToolMessage(UPDATED_PREFIX \o <<"f","r","a","n","k">>
                        \o <<" ">> \o <<"h","a","r","r","i","s">> \o <<".">>,
                        i - 1)
              /\ checkpoint[t].messages[j] =
                    ToolMessage(RejectionText(<<"j","o","e">>, <<"d","o","e">>),
                                j - 1)

\* C5: a call of update_user_name with a name pair the Customer table does
\* not hold leaves has_valid_name and the stored names as they were, appends
\* exactly one tool message carrying the rejection text and the id of the
\* call, and the turn goes on to the next model call without an error response.
C5_RejectionOnlyAppends ==
    [][\A r \in Reqs :
          (/\ req[r].wk = "tools"
           /\ req[r].pending[1].name = "update_user_name"
           /\ ~customer_exists(req[r].pending[1].args[1],
                               req[r].pending[1].args[2])
           /\ checkpoint' # checkpoint)
          => LET t  == req[r].thread_id
                 tc == req[r].pending[1]
             IN  /\ checkpoint' = [checkpoint EXCEPT ![t].messages =
                        Append(@, ToolMessage(
                            RejectionText(tc.args[1], tc.args[2]), tc.id))]
                 /\ req'[r].wk = "agent"
                 /\ req'[r].st = req[r].st
                 /\ response' = NoResponse]_vars

\* A rejected call has just been answered: the rejection is the last message
\* of the thread, the gate is still closed, and the model is called next.
C5_Witness ==
    \E r \in Reqs :
        LET st == checkpoint[req[r].thread_id]
        IN  /\ req[r].wk = "agent"
            /\ ~st.has_valid_name
            /\ st.user_first_name = <<>>
            /\ Len(st.messages) >= 3
            /\ st.messages[Len(st.messages)] =
                  ToolMessage(RejectionText(<<"j","o","e">>, <<"d","o","e">>),
                              Len(st.messages) - 1)

\* ------------------------------------------------------------------ POST /chat outcomes

\* The stored trace of an Optional registry entry ([] when there is none).
MessagesOf(entry) == IF entry = None THEN <<>> ELSE entry[1].messages

\* C6 as stated: when POST /chat answers 504, the registry entry of the
\* thread (existence, created_at, last_activity, title, messages) is the one
\* the request found when it arrived.
C6_TimeoutEntryAsOnArrival ==
    response.status = 504
        => EntryOf(thread_registry, response.thread_id)
               = response.entry_before

\* C6 amended: when POST /chat answers 504 and no other request has touched
\* the thread meanwhile, the entry differs from the one the request found
\* only by the update made on arrival: an entry that did not exist has been
\* created with the title derived from the message and an empty trace, and
\* an entry that existed has a refreshed last_activity and nothing else
\* changed.
C6_TimeoutOnlyArrivalUpdate ==
    response.status = 504
        => /\ response.thread_id \in DOMAIN thread_registry
           /\ LET e == thread_registry[response.thread_id]
                  b == response.entry_before
              IN  IF b = None
                  THEN /\ e.messages = <<>>
                       /\ e.title \in { generate_thread_title(m) :
                                          m \in ChatMessages }
                       /\ e.created_at = e.last_activity
                  ELSE /\ e.created_at = b[1].created_at
                       /\ e.title = b[1].title
                       /\ e.messages = b[1].messages
                       /\ e.last_activity >= b[1].last_activity

\* A 504 on a thread that had an entry: only last_activity has moved.
C6_Witness ==
    /\ response.status = 504
    /\ response.entry_before # None
    /\ response.thread_id \in DOMAIN thread_registry
    /\ thread_registry[response.thread_id].last_activity
           > response.entry_before[1].last_activity

\* C7: a POST /chat that ends in a timeout or in a failure of the invocation
\* loop does not write the stored trace of its thread: the trace is the one
\* the request found when the error response is sent, and no step taken
\* while the abandoned worker is still running changes the registry.
C7_FailedChatKeepsTrace ==
    [][/\ response'.status \in {400, 500, 504}
            => get_thread_messages_from_registry(thread_registry',
                                                 response'.thread_id)
                   = MessagesOf(response'.entry_before)
       /\ (\E r \in Reqs : req[r].st = "abandoned")
            => thread_registry' = thread_registry]_vars

\* The worker of a timed-out first chat has finished its loop: the thread's
\* checkpoint ends with the final assistant message, nobody waits for it, and
\* the stored trace of the thread is still empty.
C7_Witness ==
    \E t \in DOMAIN thread_registry :
        /\ \A r \in Reqs : req[r].st = "idle"
        /\ thread_registry[t].messages = <<>>
        /\ Len(checkpoint[t].messages) >= 2
        /\ checkpoint[t].messages[Len(checkpoint[t].messages)].type = "ai"
        /\ checkpoint[t].messages[Len(checkpoint[t].messages)].tool_calls
               = <<>>

\* The index of the last assistant message of a trace that holds one.
LastAssistant(trace) ==
    CHOOSE i \in 1..Len(trace) :
        /\ trace[i].type = "ai"
        /\ \A j \in (i + 1)..Len(trace) : trace[j].type # "ai"

HasAssistant(trace) == \E i \in 1..Len(trace) : trace[i].type = "ai"

\* C8 as stated: the response text of a 200 is the content of the last
\* assistant message of the returned trace, and the placeholder
\* "No response generated" when the trace holds no assistant message.
C8_TextOrPlaceholder ==
    response.status = 200
        => LET trace == thread_registry[response.thread_id].messages
           IN  response.body[1].response =
                   IF HasAssistant(trace)
                   THEN extract_message_content(
                            Some(trace[LastAssistant(trace)]))
                   ELSE NO_RESPONSE

\* C8 amended: the response text of a 200 is the content of the last
\* assistant message of the returned trace; when the trace holds no assistant
\* message it is the content of the last message of the trace, and the
\* placeholder only when the trace is empty.
C8_TextOrLastMessage ==
    response.status = 200
        => LET trace == thread_registry[response.thread_id].messages
           IN  response.body[1].response =
                   IF HasAssistant(trace)
                   THEN extract_message_content(
                            Some(trace[LastAssistant(trace)]))
                   ELSE IF trace # <<>>
                   THEN extract_message_content(Some(trace[Len(trace)]))
                   ELSE NO_RESPONSE

\* A 200 for a trace with two assistant messages of different content: the
\* text is that of the later one.
C8_Witness ==
    /\ response.status = 200
    /\ LET trace == thread_registry[response.thread_id].messages
       IN  /\ Len(trace) = 3
           /\ trace[1] = AIMessage(Str(<<"o","k">>), <<>>)
           /\ trace[2].type = "ai" /\ trace[2].content[1] = "list"
           /\ trace[3].type = "tool"
    /\ response.body[1].response = <<"a", " ", "b">>

\* C9: a chat request whose invocation loop fails (the request ends without
\* a 200 while chat is still waiting for the worker) is answered with 500;
\* 400 is kept for malformed input.
C9_LoopFailureIs500 ==
    [][\A r \in Reqs :
          (/\ req[r].st = "waiting"
           /\ req'[r].st = "idle"
           /\ response'.status # 200)
          => response'.status = 500]_vars

\* C10: when POST /chat answers 400, the registry entry of the thread is the
\* one the request found when it arrived (none created, no timestamp
\* touched).
C10_BadRequestLeavesRegistry ==
    response.status = 400
        => EntryOf(thread_registry, response.thread_id)
               = response.entry_before

\* ------------------------------------------------------------------ titles and lists

\* The title the first chat request on a thread gives it, spelled out: the
\* trimmed text, cut to 47 characters and "..." when longer than 50, with
\* its first character upper-cased.
ExpectedTitle(message) ==
    LET trimmed == Strip(message)
        cut     == IF Len(trimmed) > 50
                   THEN SubSeq(trimmed, 1, 47) \o <<".", ".", ".">>
                   ELSE trimmed
    IN  IF cut = <<>> THEN NEW_CONVERSATION
        ELSE UpperStr(cut[1]) \o SubSeq(cut, 2, Len(cut))

\* C11: the title generated from a message is the trimmed text (cut to 47
\* characters plus "..." when the trimmed text is longer than 50) with its
\* first character upper-cased, "New Conversation" for an empty or blank
\* text, and never longer than 50 characters.
C11_TitleShapeAndBound ==
    \A r \in Reqs :
        req[r].st = "waiting"
            => LET title == thread_registry[req[r].thread_id].title
               IN  /\ title = ExpectedTitle(req[r].message)
                   /\ Len(title) <= 50

\* The text of the first user message of a trace that holds one.
FirstUserText(trace) ==
    LET i == CHOOSE k \in 1..Len(trace) :
                /\ trace[k].type = "human"
                /\ \A j \in 1..(k - 1) : trace[j].type # "human"
    IN  trace[i].content[2]

\* C12: the stored title of a thread whose stored trace holds a user message
\* is the title generated from the first user message, unless it is a title
\* given explicitly to POST /threads.
C12_TitleFromFirstMessage ==
    \A t \in DOMAIN thread_registry :
        (\E k \in 1..Len(thread_registry[t].messages) :
            thread_registry[t].messages[k].type = "human")
        => thread_registry[t].title \in
              { ExpectedTitle(FirstUserText(thread_registry[t].messages)) }
              \cup { title[1] : title \in { c \in CreateTitles : TruthyStr(c) } }

\* ------------------------------------------------------------------ the tools

\* The state of the thread of slot r after one more tool message.
WithToolMessage(r, text) ==
    [checkpoint EXCEPT ![req[r].thread_id].messages =
        Append(@, ToolMessage(text, req[r].pending[1].id))]

\* C17: execute_sql does not raise: the tool node gets an answer for every
\* statement, the rows when the engine succeeds and otherwise a text that
\* starts with "Error:" and goes on with the failure description, and the
\* turn goes on.
C17_ExecuteSqlAnswers ==
    [][\A r \in Reqs :
          (req[r].wk = "tools" /\ req[r].pending[1].name = "execute_sql")
          => LET run == DbRun(req[r].pending[1].args)
             IN  /\ checkpoint' = WithToolMessage(r,
                        IF run.ok THEN run.value
                        ELSE <<"Error: ">> \o run.value)
                 /\ req'[r].wk = "agent"
                 /\ response' = NoResponse]_vars

\* execute_sql has answered a statement the engine rejects.
C17_Witness ==
    \E r \in Reqs :
        LET msgs == checkpoint[req[r].thread_id].messages
        IN  /\ req[r].wk = "agent"
            /\ Len(msgs) = 3
            /\ msgs[2].tool_calls[1].name = "execute_sql"
            /\ msgs[3].type = "tool"
            /\ msgs[3].content = Str(<<"Error: ", "syntax error">>)

\* The number of Customer rows that match the title-cased name pair.
Matches(first, last) ==
    Cardinality({ i \in 1..Len(db) : db[i] = <<Title(first), Title(last)>> })

C19_LookupFailureIsNotFound ==
    [][\A r \in Reqs :
          (/\ req[r].wk = "tools"
           /\ req[r].pending[1].name = "update_user_name"
           /\ customer_exists_raises(req[r].pending[1].args[1],
                                     req[r].pending[1].args[2]))
          => /\ checkpoint' = WithToolMessage(r,
                    RejectionText(req[r].pending[1].args[1],
                                  req[r].pending[1].args[2]))
             /\ req'[r].wk = "agent"
             /\ response' = NoResponse]_vars

\* ------------------------------------------------------------------ thread routes

\* The ids of all registry entries, most recently active first, in one of
\* the orders that leaves entries of equal last_activity either way round.
RecencyOrders ==
    { full \in KeyOrders(thread_registry) :
        \A i, j \in DOMAIN full :
            i < j => thread_registry[full[i]].last_activity
                         >= thread_registry[full[j]].last_activity }

\* C13: a GET /threads with limit L in 1..100 and offset O >= 0 returns the
\* entries O+1 .. O+L of the registry's thread ids sorted by last_activity
\* descending, and its total is the number of entries of the registry.
C13_ListIsSliceOfSorted ==
    (response.route = "GET /threads" /\ response.status = 200)
    => LET body == response.body[1]
           n    == Cardinality(DOMAIN thread_registry)
           k    == IF body.offset >= n THEN 0
                   ELSE IF body.offset + body.limit <= n THEN body.limit
                   ELSE n - body.offset
       IN  /\ body.total = n
           /\ Len(body.threads) = k
           /\ \E full \in RecencyOrders :
                 \A i \in 1..k :
                    body.threads[i].thread_id = full[body.offset + i]

\* The second page of size one of a registry of three threads, and the
\* thread on it is not the most recently active one.
C13_Witness ==
    /\ response.route = "GET /threads" /\ response.status = 200
    /\ response.body[1].total = 3
    /\ response.body[1].offset = 1 /\ response.body[1].limit = 1
    /\ Len(response.body[1].threads) = 1
    /\ \E t \in DOMAIN thread_registry :
          thread_registry[t].last_activity >
              thread_registry[response.body[1].threads[1].thread_id]
                  .last_activity

\* The role GET /threads/{id}/messages reports for a message.
RoleOf(message) ==
    IF message.type = "human" THEN "user"
    ELSE IF message.type = "ai" THEN "assistant" ELSE "tool"

\* C14: after successful chat turns on a thread, GET /threads/{id}/messages
\* with limit >= total (and offset 0) returns every message the invocation
\* loop produced on the thread, oldest first, and total is their number.
C14_MessagesRoundTrip ==
    (/\ response.route = "GET /threads/{thread_id}/messages"
     /\ response.status = 200
     /\ response.body[1].offset = 0
     /\ response.body[1].limit >= response.body[1].total
     /\ get_thread_messages_from_registry(thread_registry,
                                          response.thread_id) # <<>>)
    => LET produced == checkpoint[response.thread_id].messages
       IN  /\ response.body[1].total = Len(produced)
           /\ Len(response.body[1].messages) = Len(produced)
           /\ \A i \in 1..Len(produced) :
                 /\ response.body[1].messages[i].role = RoleOf(produced[i])
                 /\ response.body[1].messages[i].content =
                        produced[i].content[2]

\* The messages of a thread created with a title and chatted on twice.
C14_Witness ==
    /\ response.route = "GET /threads/{thread_id}/messages"
    /\ response.status = 200
    /\ response.body[1].total = 4
    /\ Len(response.body[1].messages) = 4
    /\ response.body[1].messages[1].role = "user"
    /\ response.body[1].messages[3].role = "user"
    /\ response.thread_id \in DOMAIN thread_registry
    /\ thread_registry[response.thread_id].title = <<"T">>

\* C15: DELETE /threads/{id} answers 200 whether or not the id has an entry,
\* removes that entry and no other, and a second delete of the same id would
\* leave the registry as the first one left it.
C15_DeleteIdempotent ==
    [][response'.route = "DELETE /threads/{thread_id}"
          => /\ response'.status = 200
             /\ DOMAIN thread_registry' =
                    DOMAIN thread_registry \ {response'.thread_id}
             /\ \A t \in DOMAIN thread_registry' :
                    thread_registry'[t] = thread_registry[t]
             /\ delete_thread(thread_registry', response'.thread_id)
                    = thread_registry']_vars

\* A delete has been answered and another thread's entry is still there.
C15_Witness ==
    /\ response.route = "DELETE /threads/{thread_id}"
    /\ response.status = 200
    /\ thread_registry # <<>>
    /\ response.thread_id \notin DOMAIN thread_registry

\* C16: GET /threads/{id} and GET /threads/{id}/messages for an id without
\* an entry return message_count 0 and no timestamps, and an empty message
\* list with total 0; neither read changes the registry.
C16_ReadsOfUnknownId ==
    [][response'.route \in {"GET /threads/{thread_id}",
                            "GET /threads/{thread_id}/messages"}
          => /\ thread_registry' = thread_registry
             /\ (response'.thread_id \notin DOMAIN thread_registry
                    /\ response'.status = 200)
                => IF response'.route = "GET /threads/{thread_id}"
                   THEN /\ response'.body[1].message_count = 0
                        /\ response'.body[1].created_at = None
                        /\ response'.body[1].last_activity = None
                   ELSE /\ response'.body[1].messages = <<>>
                        /\ response'.body[1].total = 0]_vars

\* The metadata of an id without an entry has been read, next to a thread
\* that has one.
C16_Witness ==
    /\ response.route = "GET /threads/{thread_id}"
    /\ response.thread_id \notin DOMAIN thread_registry
    /\ thread_registry # <<>>
    /\ response.body[1].message_count = 0

\* C20: a POST /chat, POST /threads or DELETE on one thread id never changes
\* the registry entry of another: whenever a step changes the entry of a
\* thread, it is a step of a request on that thread.
C20_OtherEntriesUntouched ==
    [][\A b \in ThreadIds :
          EntryOf(thread_registry', b) # EntryOf(thread_registry, b)
          => \/ response'.thread_id = b
             \/ \E r \in Reqs : /\ req[r].st = "idle"
                                /\ req'[r].st = "waiting"
                                /\ req'[r].thread_id = b]_vars

\* Two chats overlap on different threads: one has completed and stored its
\* trace while the other is still waiting, its entry as its arrival left it.
C20_Witness ==
    /\ response.route = "POST /chat" /\ response.status = 200
    /\ \E r \in Reqs :
          /\ req[r].st = "waiting"
          /\ req[r].thread_id # response.thread_id
          /\ req[r].thread_id \in DOMAIN thread_registry
          /\ thread_registry[req[r].thread_id].messages = <<>>
          /\ thread_registry[response.thread_id].messages # <<>>

\* ------------------------------------------------------------------ chat and the registry entry

\* Slot r receives a chat request in this step.
ChatArrives(r) == req[r].st = "idle" /\ req'[r].st = "waiting"

\* The chat request on slot r is answered in this step.
ChatAnswered(r) == req[r].st = "waiting" /\ req'[r].st # "waiting"

\* C21: a step of a POST /chat (its arrival or its answer) on a thread id
\* that has a registry entry keeps the entry, its created_at and its title;
\* it moves last_activity, and the stored messages change only when the
\* answer is a 200.
C21_ChatKeepsCreatedAtAndTitle ==
    [][\A r \in Reqs :
          LET t == IF ChatArrives(r) THEN req'[r].thread_id
                   ELSE req[r].thread_id
          IN  ((ChatArrives(r) \/ ChatAnswered(r))
                  /\ t \in DOMAIN thread_registry)
              => /\ t \in DOMAIN thread_registry'
                 /\ thread_registry'[t].created_at
                        = thread_registry[t].created_at
                 /\ thread_registry'[t].title = thread_registry[t].title
                 /\ thread_registry'[t].last_activity
                        >= thread_registry[t].last_activity
                 /\ thread_registry'[t].messages
                        # thread_registry[t].messages
                    => (ChatAnswered(r) /\ response'.status = 200)]_vars

\* A chat on a thread created with the title T has been answered with 200:
\* the title is still T, the trace is stored and last_activity has moved on
\* from created_at.
C21_Witness ==
    /\ response.route = "POST /chat" /\ response.status = 200
    /\ response.entry_before # None
    /\ response.entry_before[1].title = <<"T">>
    /\ response.thread_id \in DOMAIN thread_registry
    /\ LET e == thread_registry[response.thread_id]
       IN  /\ e.title = <<"T">>
           /\ e.created_at = response.entry_before[1].created_at
           /\ e.last_activity > e.created_at
           /\ e.messages # <<>>

\* a is an initial part of b.
IsPrefix(a, b) == Len(a) <= Len(b) /\ SubSeq(b, 1, Len(a)) = a

\* C22: whenever a chat turn writes the stored trace of an entry that
\* exists (a 200 is answered for its thread), the trace stored before is a
\* prefix of the trace stored now, also when two chat requests on the same
\* thread id overlap.
C22_TraceAppendOnly ==
    [][\A r \in Reqs :
          (/\ ChatAnswered(r)
           /\ response'.status = 200
           /\ req[r].thread_id \in DOMAIN thread_registry)
          => IsPrefix(thread_registry[req[r].thread_id].messages,
                      thread_registry'[req[r].thread_id].messages)]_vars

\* C23: a thread id gets a registry entry only in the step in which a POST
\* /threads for it or a POST /chat for it arrives; in particular an id that
\* DELETE has removed stays absent while a chat request that was in flight
\* on it runs on and is answered.
C23_EntryOnlyOnArrival ==
    [][\A b \in ThreadIds :
          (b \notin DOMAIN thread_registry /\ b \in DOMAIN thread_registry')
          => \/ response'.route = "POST /threads" /\ response'.thread_id = b
             \/ \E r \in Reqs : ChatArrives(r) /\ req'[r].thread_id = b]_vars

\* The number of user messages of a trace.
UserMessages(trace) ==
    Cardinality({ i \in 1..Len(trace) : trace[i].type = "human" })

\* C24: deleting a thread deletes its conversation state: the trace stored
\* by the 200 of a chat that arrived for an id without an entry (never seen,
\* or deleted) holds the messages of that turn only, the submitted message
\* first and no other user message.  (The gate flag of the thread is kept in
\* the same per-thread state as the messages.)
C24_DeleteClearsConversation ==
    [][\A r \in Reqs :
          (ChatAnswered(r) /\ response'.status = 200
              /\ req[r].entry_before = None)
          => LET trace == thread_registry'[req[r].thread_id].messages
             IN  /\ UserMessages(trace) = 1
                 /\ IsUserMessage(trace[1], req[r].message)]_vars

\* ------------------------------------------------------------------ POST /threads

\* C25 as stated: right after a POST /threads on an id that has an entry,
\* the entry has an empty trace, the supplied title ("New Conversation" if
\* none was supplied), and created_at = last_activity = the time of the call.
C25_CreateOverwritesSupplied ==
    (response.route = "POST /threads" /\ response.entry_before # None)
    => LET e     == thread_registry[response.thread_id]
           title == response.request[1]
       IN  /\ e.messages = <<>>
           /\ e.title = IF title # None THEN title[1] ELSE NEW_CONVERSATION
           /\ e.created_at = now /\ e.last_activity = now

\* C25 amended: right after a POST /threads on an id that has an entry, the
\* entry has an empty trace, the supplied title when it is not empty and
\* "New Conversation" when none or an empty one was supplied, and
\* created_at = last_activity = the time of the call.
C25_CreateOverwritesNonEmpty ==
    (response.route = "POST /threads" /\ response.entry_before # None)
    => LET e     == thread_registry[response.thread_id]
           title == response.request[1]
       IN  /\ e.messages = <<>>
           /\ e.title = IF title # None /\ title[1] # <<>> THEN title[1]
                        ELSE NEW_CONVERSATION
           /\ e.created_at = now /\ e.last_activity = now

\* A thread that a chat had titled and filled has been created again
\* without a title: its trace is empty, its title "New Conversation" and its
\* created_at later than before.
C25_Witness ==
    /\ response.route = "POST /threads"
    /\ response.entry_before # None
    /\ response.request = Some(None)
    /\ response.entry_before[1].messages # <<>>
    /\ response.entry_before[1].title = <<"H", "i">>
    /\ LET e == thread_registry[response.thread_id]
       IN  /\ e.messages = <<>>
           /\ e.title = NEW_CONVERSATION
           /\ e.created_at > response.entry_before[1].created_at

\* ------------------------------------------------------------------ debug_info

\* The index at which the current turn of a trace starts: that of the most
\* recent user message whose text is the submitted one, 1 when there is none.
TurnStart(trace, text) ==
    IF \E i \in 1..Len(trace) : IsUserMessage(trace[i], text)
    THEN CHOOSE i \in 1..Len(trace) :
            /\ IsUserMessage(trace[i], text)
            /\ \A j \in (i + 1)..Len(trace) : ~IsUserMessage(trace[j], text)
    ELSE 1

\* The assistant message at index i of the trace asks for the call id.
Invokes(trace, i, id) ==
    /\ trace[i].type = "ai"
    /\ \E j \in 1..Len(trace[i].tool_calls) : trace[i].tool_calls[j].id = id

\* C26: every entry of debug_info.tool_calls carries the id, name and
\* arguments of a call an assistant message of the current turn asks for,
\* no two entries carry the same id, and the output of an entry is absent or
\* the content of a tool message of the current turn with that id that comes
\* after a message asking for it; a tool message whose id nothing before it
\* in the turn asked for makes no entry.
C26_ToolCallsMatchTurn ==
    response.status = 200
    => LET trace == thread_registry[response.thread_id].messages
           from  == TurnStart(trace, <<"h","i">>)
           calls == response.body[1].tool_calls
       IN  \A k \in 1..Len(calls) :
              /\ calls[k].tool_call_id # 0
              /\ \E i \in from..Len(trace) :
                    /\ trace[i].type = "ai"
                    /\ \E j \in 1..Len(trace[i].tool_calls) :
                          /\ trace[i].tool_calls[j].id = calls[k].tool_call_id
                          /\ trace[i].tool_calls[j].name = calls[k].tool_name
                          /\ trace[i].tool_calls[j].args = calls[k].args
              /\ \A l \in 1..Len(calls) :
                    calls[l].tool_call_id = calls[k].tool_call_id => l = k
              /\ calls[k].output # None
                 => \E i, m \in from..Len(trace) :
                       /\ i < m
                       /\ Invokes(trace, i, calls[k].tool_call_id)
                       /\ trace[m].type = "tool"
                       /\ trace[m].tool_call_id = calls[k].tool_call_id
                       /\ calls[k].output = Some(trace[m].content[2])

\* A turn of four messages: a result for id 2 that nothing asked for yet,
\* then the two calls 1 and 2, then the result of call 1.  Two entries, the
\* first with that output and the second without one.
C26_Witness ==
    /\ response.status = 200
    /\ LET trace == thread_registry[response.thread_id].messages
           calls == response.body[1].tool_calls
       IN  /\ Len(trace) = 4
           /\ IsUserMessage(trace[1], <<"h","i">>)
           /\ trace[2] = ToolMessage(<<"s">>, 2)
           /\ Len(trace[3].tool_calls) = 2
           /\ trace[4] = ToolMessage(<<"r">>, 1)
           /\ Len(calls) = 2
           /\ calls[1].tool_call_id = 1 /\ calls[1].output = Some(<<"r">>)
           /\ calls[2].tool_call_id = 2 /\ calls[2].output = None

\* C27: the current turn used for debug_info is the suffix of the returned
\* trace that starts at the most recent user message whose text is the
\* submitted one, in the order of the trace, and the whole trace when there
\* is no such message; step_count is its length and tool_calls is computed
\* from it.
C27_TurnIsLastSuffix ==
    response.status = 200
    => LET trace == thread_registry[response.thread_id].messages
           turn  == SubSeq(trace, TurnStart(trace, <<"h","i">>), Len(trace))
       IN  /\ turn_messages(trace, <<"h","i">>) = turn
           /\ response.body[1].step_count = Len(turn)
           /\ response.body[1].tool_calls = tool_calls_map(<<>>, turn)

\* The submitted message occurs twice in the trace, the second time as its
\* third message, followed by a result: the turn is the last two messages.
C27_Witness ==
    /\ response.status = 200
    /\ LET trace == thread_registry[response.thread_id].messages
       IN  /\ Len(trace) = 4
           /\ IsUserMessage(trace[1], <<"h","i">>)
           /\ trace[2].type = "ai" /\ trace[2].tool_calls # <<>>
           /\ IsUserMessage(trace[3], <<"h","i">>)
           /\ trace[4].type = "tool"
    /\ response.body[1].step_count = 2
    /\ response.body[1].tool_calls = <<>>

\* ------------------------------------------------------------------ responsiveness

\* C28: every POST /chat request is answered in the end, with 200, 504, 400
\* or 500, whether or not its invocation loop ever finishes and whatever
\* the worker of another request does.
C28_EveryChatAnswered ==
    /\ \A r \in Reqs : (req[r].st = "waiting") ~> (req[r].st # "waiting")
    /\ [][\A r \in Reqs :
             ChatAnswered(r)
             => /\ response'.route = "POST /chat"
                /\ response'.status \in {200, 504, 400, 500}]_vars

\* A chat has been answered with 200 while the worker of another,
\* timed-out request has still not started its loop.
C28_Witness ==
    /\ response.route = "POST /chat" /\ response.status = 200
    /\ \E r \in Reqs : req[r].st = "abandoned" /\ req[r].wk = "running"

\* ------------------------------------------------------------------ isolation of the gate

\* C29: the gate is per thread: a model invocation on a thread whose own
\* state holds no valid name is not offered execute_sql and does not get the
\* name validated on another thread in its system prompt, however the
\* requests on the two threads interleave.
C29_GateIsolatedPerThread ==
    \A r \in ModelCalled :
        LET b == req[r].thread_id
        IN  \A a \in ThreadIds \ {b} :
               (checkpoint[a].has_valid_name /\ ~checkpoint[b].has_valid_name)
               => /\ "execute_sql" \notin req[r].model_request[1].tools
                  /\ req[r].model_request[1].system_prompt #
                        Some(SQL_EXECUTION_AGENT_PROMPT(USABLE_TABLES,
                                 checkpoint[a].user_first_name,
                                 checkpoint[a].user_last_name))

\* Two chats in flight on two threads: the one has validated a name on its
\* thread, the other has called the model on a thread without a valid name
\* and was offered update_user_name only.
C29_Witness ==
    \E r, q \in Reqs :
        /\ r # q
        /\ req[r].st = "waiting" /\ req[r].wk = "returned"
        /\ req[q].st = "waiting" /\ req[q].wk = "returned"
        /\ req[r].thread_id # req[q].thread_id
        /\ checkpoint[req[q].thread_id].has_valid_name
        /\ ~checkpoint[req[r].thread_id].has_valid_name
        /\ req[r].model_request[1].tools = {"update_user_name"}

====
